---- MODULE Spec2Model ----
(***************************************************************************)
(* In-memory, TTL-bound file relay (server.js): the store inMemoryFiles,   *)
(* the transfer statistics inMemoryStats, the handlers POST /upload,       *)
(* GET /f/:id and GET /progress/:id, the per-upload setTimeout and the     *)
(* periodic setInterval sweep.                                             *)
(*                                                                         *)
(* Time is counted in minutes: Date.now() is `now`, TTL_MINUTES*60*1000 ms *)
(* is TTL_MINUTES ticks and the sweep period 2*60*1000 ms is SWEEP_MINUTES *)
(* ticks.  A handler runs to completion at one instant (Node runs each     *)
(* callback without interleaving).  A timer callback runs no earlier than  *)
(* its delay, and possibly later.                                          *)
(*                                                                         *)
(* Strings the code inspects character by character (file names, the      *)
(* Range header) are sequences of one-character strings.                   *)
(***************************************************************************)
EXTENDS Integers, Sequences, FiniteSets, TLC

\* ------------------------------------------------------------ bounds
MaxTime == 3       \* the clock stops advancing here
MaxSent == 2       \* an id is read while fewer than MaxSent of its bytes were sent
MaxNum == 1        \* largest number written in an enumerated Range header
LastUpload == 1    \* under fair scheduling, uploads arrive until this instant
MaxSize == 6       \* largest object whose stat GET /progress/:id is asked about
MaxTenths == 30    \* GET /progress/:id is asked up to this many 0.1 s after a read
MaxName == 3       \* longest file name of which every spelling is tried

\* ------------------------------------------------------------ configuration
TTL_MINUTES == 1   \* process.env.TTL_MINUTES
MAX_BYTES == 2     \* MAX_FILE_MB * 1024 * 1024
SWEEP_MINUTES == 2 \* setInterval(..., 2 * 60 * 1000)
maxLength == 100   \* sanitizeFilename

\* ------------------------------------------------------------ characters
Digits == <<"0", "1", "2", "3", "4", "5", "6", "7", "8", "9">>

IsDigit(c) == \E i \in 1..10 : Digits[i] = c

DigitVal(c) == (CHOOSE i \in 1..10 : Digits[i] = c) - 1

LowerLetters ==
    {"a","b","c","d","e","f","g","h","i","j","k","l","m",
     "n","o","p","q","r","s","t","u","v","w","x","y","z"}

UpperLetters ==
    {"A","B","C","D","E","F","G","H","I","J","K","L","M",
     "N","O","P","Q","R","S","T","U","V","W","X","Y","Z"}

UpperSeq ==
    <<"A","B","C","D","E","F","G","H","I","J","K","L","M",
      "N","O","P","Q","R","S","T","U","V","W","X","Y","Z">>

LowerSeq ==
    <<"a","b","c","d","e","f","g","h","i","j","k","l","m",
      "n","o","p","q","r","s","t","u","v","w","x","y","z">>

\* String.prototype.toLowerCase on one character
toLowerCaseChar(c) ==
    IF c \in UpperLetters
    THEN LowerSeq[CHOOSE i \in 1..26 : UpperSeq[i] = c]
    ELSE c

toLowerCase(s) == [i \in 1..Len(s) |-> toLowerCaseChar(s[i])]

\* [<>:"/\\|?*\x00-\x1f]
IsForbiddenChar(c) ==
    c \in {"<", ">", ":", "\"", "/", "\\", "|", "?", "*", "\t", "\n", "\r", "\f"}

\* \s
IsSpaceChar(c) == c \in {" ", "\t", "\n", "\r", "\f"}

\* \w
IsWordChar(c) == c \in LowerLetters \cup UpperLetters \/ IsDigit(c) \/ c = "_"

\* [\w\-_.]
IsKeptChar(c) == IsWordChar(c) \/ c \in {"-", "_", "."}

\* ------------------------------------------------------------ sequences
\* s.replace(/[class]/g, '') with the class given as a set of characters of s
RemoveChars(s, bad) == SelectSeq(s, LAMBDA c : c \notin bad)

CharsOf(s) == {s[i] : i \in 1..Len(s)}

\* the index at which the maximal run of characters of cls around index i begins
RunStart(s, cls, i) ==
    CHOOSE j \in 1..i :
        /\ \A k \in j..i : s[k] \in cls
        /\ (j = 1 \/ s[j - 1] \notin cls)

\* the index at which it ends
RunEnd(s, cls, i) ==
    CHOOSE j \in i..Len(s) :
        /\ \A k \in i..j : s[k] \in cls
        /\ (j = Len(s) \/ s[j + 1] \notin cls)

\* every maximal run of at least `least` characters of `cls` becomes one "_":
\* its first character is replaced and its other characters are dropped
CollapseRuns(s, cls, least) ==
    LET replaced(i) ==
            IF s[i] \notin cls THEN s[i]
            ELSE IF RunEnd(s, cls, i) - RunStart(s, cls, i) + 1 < least THEN s[i]
            ELSE IF RunStart(s, cls, i) = i THEN "_"
            ELSE ""
    IN  SelectSeq([i \in 1..Len(s) |-> replaced(i)], LAMBDA c : c # "")

\* s.replace(/^[._]+|[._]+$/g, '')
StripEnds(s) ==
    LET edge == {".", "_"}
        keep == {i \in 1..Len(s) : s[i] \notin edge}
    IN  IF keep = {} THEN <<>>
        ELSE SubSeq(s, CHOOSE i \in keep : \A j \in keep : i <= j,
                       CHOOSE i \in keep : \A j \in keep : i >= j)

\* ------------------------------------------------------------ path
\* path.extname on a name without directory separators
extname(s) ==
    LET dots == {i \in 2..Len(s) : s[i] = "."}
    IN  IF dots = {} \/ \A i \in 1..Len(s) : s[i] = "." THEN <<>>
        ELSE SubSeq(s, CHOOSE i \in dots : \A j \in dots : i >= j, Len(s))

\* path.basename(s, ext) on a name without directory separators
basename(s, ext) ==
    IF /\ ext # <<>>
       /\ Len(s) > Len(ext)
       /\ SubSeq(s, Len(s) - Len(ext) + 1, Len(s)) = ext
    THEN SubSeq(s, 1, Len(s) - Len(ext))
    ELSE s

\* String.prototype.substring(0, n)
substring0(s, n) ==
    IF n <= 0 THEN <<>> ELSE IF n >= Len(s) THEN s ELSE SubSeq(s, 1, n)

archivo == <<"a", "r", "c", "h", "i", "v", "o">>

\* the chain of replace calls that gives `sanitized` its first value
replaced(filename) ==
    LET s1 == RemoveChars(filename, {c \in CharsOf(filename) : IsForbiddenChar(c)})
        s2 == CollapseRuns(s1, {c \in CharsOf(s1) : IsSpaceChar(c)}, 1)
        s3 == RemoveChars(s2, {c \in CharsOf(s2) : ~IsKeptChar(c)})
        s4 == CollapseRuns(s3, {"_"}, 2)
    IN  StripEnds(s4)

sanitizeFilename(filename) ==
    IF filename = <<>> THEN archivo
    ELSE
      LET s5 == replaced(filename)
          ext == extname(s5)
          name == basename(s5, ext)
          truncatedName == substring0(name, maxLength - Len(ext) - 3) \o <<".", ".", ".">>
          sanitized == IF Len(s5) > maxLength THEN truncatedName \o ext ELSE s5
      IN  IF sanitized = <<>> THEN archivo ELSE sanitized

guessMimeByExt(filename) ==
    LET ext == toLowerCase(extname(filename))
    IN  IF ext = <<".", "d", "o", "c", "x">>
        THEN "application/vnd.openxmlformats-officedocument.wordprocessingml.document"
        ELSE IF ext = <<".", "x", "l", "s", "x">>
        THEN "application/vnd.openxmlformats-officedocument.spreadsheetml.sheet"
        ELSE IF ext = <<".", "d", "o", "c">> THEN "application/msword"
        ELSE IF ext = <<".", "x", "l", "s">> THEN "application/vnd.ms-excel"
        ELSE IF ext = <<".", "p", "p", "t", "x">>
        THEN "application/vnd.openxmlformats-officedocument.presentationml.presentation"
        ELSE IF ext = <<".", "p", "p", "t">> THEN "application/vnd.ms-powerpoint"
        ELSE "application/octet-stream"

\* encodeURIComponent: the unreserved characters stay, the others are escaped
\* (the escape of a character is written <<"%", c>>)
IsUnreserved(c) ==
    IsWordChar(c) \/ c \in {"-", ".", "!", "~", "*", "'", "(", ")"}

RECURSIVE encodeURIComponent(_)
encodeURIComponent(s) ==
    IF s = <<>> THEN <<>>
    ELSE (IF IsUnreserved(Head(s)) THEN <<Head(s)>> ELSE <<"%", Head(s)>>)
         \o encodeURIComponent(Tail(s))

\* ------------------------------------------------------------ Range header
BytesEq == <<"b", "y", "t", "e", "s", "=">>

\* length of the longest run of digits of h that starts at index j
DigitRun(h, j) ==
    LET ends == {n \in 0..(Len(h) - j + 1) : \A k \in j..(j + n - 1) : IsDigit(h[k])}
    IN  CHOOSE n \in ends : \A m \in ends : n >= m

\* /bytes=(\d+)-(\d+)?/ matched with its first character at index i
MatchAt(h, i) ==
    /\ i + 5 <= Len(h)
    /\ SubSeq(h, i, i + 5) = BytesEq
    /\ DigitRun(h, i + 6) >= 1
    /\ i + 6 + DigitRun(h, i + 6) <= Len(h)
    /\ h[i + 6 + DigitRun(h, i + 6)] = "-"

\* /bytes=(\d+)-(\d+)?/.exec(range): <<>> for null, else <<[g1, g2]>> with the
\* leftmost match's groups (g2 = <<>> when the second group did not take part)
RangeExec(h) ==
    LET at == {i \in 1..Len(h) : MatchAt(h, i)}
    IN  IF at = {} THEN <<>>
        ELSE LET i  == CHOOSE k \in at : \A m \in at : k <= m
                 n1 == DigitRun(h, i + 6)
                 d  == i + 6 + n1
                 n2 == DigitRun(h, d + 1)
             IN  <<[g1 |-> SubSeq(h, i + 6, d - 1), g2 |-> SubSeq(h, d + 1, d + n2)]>>

RECURSIVE Number(_)
\* Number(s) for a string of decimal digits
Number(s) ==
    IF s = <<>> THEN 0
    ELSE 10 * Number(SubSeq(s, 1, Len(s) - 1)) + DigitVal(s[Len(s)])

\* ------------------------------------------------------------ requests
\* The identifiers.  A handler and a timeout touch the entry of one id, and the
\* sweep treats every entry on its own, so two ids show every interaction.
Ids == {1, 2}

RECURSIVE Dec(_)
\* the decimal digits of n
Dec(n) == IF n < 10 THEN <<Digits[n + 1]>> ELSE Dec(n \div 10) \o <<Digits[(n % 10) + 1]>>

\* a buffer of n bytes, all different
Buf(n) == [i \in 1..n |-> 10 + i]

\* req.file.originalname
OriginalNames ==
    {<<>>, <<"a", " ", "b", ".", "D", "O", "C", "X">>, <<".", "_", "<", ".">>}

\* req.file of POST /upload: <<>> when the request carries no file part, else
\* <<[buffer, size, originalname, mimetype]>> as multer's memoryStorage fills it
\* (size is the buffer's length; originalname and mimetype may be empty)
UploadFiles ==
    {<<>>,
     <<[buffer |-> Buf(0), size |-> 0,
        originalname |-> <<".", "_", "<", ".">>, mimetype |-> ""] >>,
     <<[buffer |-> Buf(MAX_BYTES), size |-> MAX_BYTES,
        originalname |-> <<"a", " ", "b", ".", "D", "O", "C", "X">>, mimetype |-> ""] >>,
     <<[buffer |-> [i \in 1..(MAX_BYTES - 1) |-> 20 + i], size |-> MAX_BYTES - 1,
        originalname |-> <<>>, mimetype |-> "text/plain"] >>,
     <<[buffer |-> Buf(MAX_BYTES + 1), size |-> MAX_BYTES + 1,
        originalname |-> <<>>, mimetype |-> "text/plain"] >>}

\* sanitizeFilename(req.file.originalname || "archivo"), tabulated
filenameOf ==
    [n \in OriginalNames |-> sanitizeFilename(IF n = <<>> THEN archivo ELSE n)]

\* guessMimeByExt and encodeURIComponent, tabulated over the stored names
StoredNames == {filenameOf[n] : n \in OriginalNames}

guessedMime == [n \in StoredNames |-> guessMimeByExt(n)]

safeName == [n \in StoredNames |-> encodeURIComponent(n)]

\* the headers of POST /upload the handler reads: x-forwarded-proto and host
UploadHeaders ==
    {[xfProto |-> "", host |-> "localhost"], [xfProto |-> "https", host |-> "relay"]}

\* Range header values outside the grammar bytes=<start>-<end?>
UnmatchedRanges ==
    {<<BytesEq \o <<"-", "1">> >>,
     <<BytesEq \o <<"a", "-", "b">> >>,
     << <<"i", "t", "e", "m", "s", "=", "0", "-", "0">> >>}

\* the header bytes=<a>-<b>, and bytes=<a>- when e is <<>>
RangeOf(a, e) == <<BytesEq \o Dec(a) \o <<"-">> \o (IF e = <<>> THEN <<>> ELSE Dec(e[1]))>>

\* an optional end: none, or a number up to MaxNum
Ends == {<<>>} \cup {<<b>> : b \in 0..MaxNum}

\* req.headers.range of GET /f/:id: <<>> when the header is absent, else <<value>>
RangeHeaders ==
    {<<>>, << <<>> >>}
    \cup {RangeOf(a, e) : a \in 0..MaxNum, e \in Ends}
    \cup UnmatchedRanges
    \cup {<< <<"x">> \o BytesEq \o <<"0", "-", "0">> >>,
          <<BytesEq \o <<"0", "0", "-", "0", "1">> >>,
          <<BytesEq \o <<"1", "-", "1", "0">> >>}

\* /bytes=(\d+)-(\d+)?/.exec(range), tabulated over the enumerated headers
rangeMatch == [r \in RangeHeaders \ {<<>>} |-> RangeExec(r[1])]

\* ------------------------------------------------------------ state
VARIABLES
    now,            \* Date.now(), in minutes
    inMemoryFiles,  \* Map id -> {buffer, mime, filename, expireAt, size}
    inMemoryStats,  \* Map id -> {size, bytesSent, startedAt?, completedAt?}
    timeouts,       \* pending setTimeout callbacks: {[id, due]}
    nextSweep,      \* the instant the setInterval callback is next due
    known,          \* identifiers that already exist somewhere: randomUUID()
                    \* returns none of them (a collision has negligible probability)
    uploaded,       \* history: id -> the file POST /upload received, the entry it
                    \* stored and the instant it did
    removedBy,      \* history: id -> what removed its store entry
    missed,         \* history: the ids GET /f/:id has answered 404 for
    arg,            \* the arguments of a function that is applied on its own
                    \* (sanitizeFilename, the body of GET /progress/:id), <<>>
                    \* while the server runs
    ret             \* <<its result>> once it has been applied

vars == <<now, inMemoryFiles, inMemoryStats, timeouts, nextSweep, known,
          uploaded, removedBy, missed, arg, ret>>

\* Map.prototype.delete
MapDelete(m, k) == [i \in DOMAIN m \ {k} |-> m[i]]

\* Map.prototype.set
MapSet(m, k, v) == [i \in DOMAIN m \cup {k} |-> IF i = k THEN v ELSE m[i]]

\* the truthiness of an optional number (undefined is <<>>)
Truthy(opt) == opt # <<>> /\ opt[1] # 0

Init ==
    /\ now = 1
    /\ inMemoryFiles = <<>>
    /\ inMemoryStats = <<>>
    /\ timeouts = {}
    /\ nextSweep = 1 + SWEEP_MINUTES
    /\ known = {}
    /\ uploaded = <<>>
    /\ removedBy = <<>>
    /\ missed = {}
    /\ arg = <<>>
    /\ ret = <<>>

\* ------------------------------------------------------------ POST /upload
PUBLIC_BASE_URL == [proto |-> "http", host |-> "localhost:3000"]

\* crypto.randomUUID(): an identifier that exists nowhere yet.  Fresh identifiers
\* are interchangeable, so the least one stands for all of them.
FreshIds == {id \in Ids \ known : \A other \in Ids \ known : id <= other}

\* Date.now() + TTL_MINUTES * 60 * 1000
ExpireAt == now + TTL_MINUTES

\* the delay given in the wrong unit: the callback is due one tick early
TimeoutDue_Early == now + TTL_MINUTES - 1

\* the delay given to setTimeout, as the instant the callback is due
TimeoutDue == now + TTL_MINUTES

\* the object inMemoryFiles.set stores
Entry(file) ==
    LET filename == filenameOf[file.originalname]
        mime == IF file.mimetype = "" THEN guessedMime[filename] ELSE file.mimetype
    IN  [buffer |-> file.buffer, mime |-> mime, filename |-> filename,
         expireAt |-> ExpireAt, size |-> Len(file.buffer)]

\* the object inMemoryStats.set stores at upload
ZeroStat(file) ==
    [size |-> Len(file.buffer), bytesSent |-> 0, startedAt |-> <<>>, completedAt |-> <<>>]

\* the JSON answered by a successful upload
UploadJson(id, file, headers) ==
    LET detected == headers.xfProto # "" /\ headers.host # ""
        base == IF detected THEN [proto |-> headers.xfProto, host |-> headers.host]
                ELSE PUBLIC_BASE_URL
        fileUrl == [base |-> base, path |-> <<"f", id>>]
    IN  [status |-> 200, id |-> id, fileUrl |-> fileUrl, viewerUrl |-> [src |-> fileUrl],
         filename |-> Entry(file).filename, expiresAt |-> Entry(file).expireAt]

\* the limit taken as exclusive: a payload of exactly MAX_BYTES is refused
TooLarge_AtLimit(file) == file.size >= MAX_BYTES

\* req.file.size > MAX_BYTES
TooLarge(file) == file.size > MAX_BYTES

\* the handler of POST /upload with `id` what randomUUID() returns: its answer
\* and the maps and timers it leaves
UploadResult(file, headers, id) ==
    IF file = <<>>
    THEN [reply |-> [status |-> 400, error |-> "file_required"],
          files |-> inMemoryFiles, stats |-> inMemoryStats, timers |-> timeouts]
    ELSE IF TooLarge(file[1])
    THEN [reply |-> [status |-> 413, error |-> "file_too_large"],
          files |-> inMemoryFiles, stats |-> inMemoryStats, timers |-> timeouts]
    ELSE [reply |-> UploadJson(id, file[1], headers),
          files |-> MapSet(inMemoryFiles, id, Entry(file[1])),
          stats |-> MapSet(inMemoryStats, id, ZeroStat(file[1])),
          timers |-> timeouts \cup {[id |-> id, due |-> TimeoutDue]}]

Upload(file, headers) ==
    \E id \in FreshIds : \E r \in {UploadResult(file, headers, id)} :
        LET stored == r.reply.status = 200
        IN  /\ inMemoryFiles' = r.files
            /\ inMemoryStats' = r.stats
            /\ timeouts' = r.timers
            /\ known' = IF stored THEN known \cup {id} ELSE known
            /\ uploaded' = IF stored
                            THEN MapSet(uploaded, id, [at |-> now, file |-> file[1],
                                                       entry |-> r.files[id]])
                            ELSE uploaded
            /\ UNCHANGED <<now, nextSweep, removedBy, missed, arg, ret>>

\* ------------------------------------------------------------ GET /f/:id
\* the lookup without the expiry test
Missing_NoExpiry(id) == id \notin DOMAIN inMemoryFiles

\* !file || Date.now() > file.expireAt
Missing(id) == id \notin DOMAIN inMemoryFiles \/ now > inMemoryFiles[id].expireAt

\* inMemoryStats.get(id) || { size: total, bytesSent: 0 }
StatOrFresh(id, total) ==
    IF id \in DOMAIN inMemoryStats THEN inMemoryStats[id]
    ELSE [size |-> total, bytesSent |-> 0, startedAt |-> <<>>, completedAt |-> <<>>]

\* startedAt assigned at every delivery
RecordDelivery_Restart(stat, bytes) ==
    [size |-> stat.size, bytesSent |-> stat.bytesSent + bytes, startedAt |-> <<now>>,
     completedAt |-> IF stat.bytesSent + bytes >= stat.size
                     THEN <<now>> ELSE stat.completedAt]

\* the delivery assigned to bytesSent instead of added to it
RecordDelivery_Overwrite(stat, bytes) ==
    [size |-> stat.size, bytesSent |-> bytes,
     startedAt |-> IF ~Truthy(stat.startedAt) THEN <<now>> ELSE stat.startedAt,
     completedAt |-> IF bytes >= stat.size THEN <<now>> ELSE stat.completedAt]

\* the stat after one delivery of `bytes` bytes
RecordDelivery(stat, bytes) ==
    LET started == IF ~Truthy(stat.startedAt) THEN <<now>> ELSE stat.startedAt
        sent == stat.bytesSent + bytes
    IN  [size |-> stat.size, bytesSent |-> sent, startedAt |-> started,
         completedAt |-> IF sent >= stat.size THEN <<now>> ELSE stat.completedAt]

\* the test without start > end
Unsatisfiable_NoOrderTest(start, end, total) == end >= total

\* isNaN(start) || isNaN(end) || start > end || end >= total
\* (a string of digits is never NaN)
Unsatisfiable(start, end, total) == start > end \/ end >= total

\* the slice with its end exclusive
subarray_ExclusiveEnd(buffer, start, end) == SubSeq(buffer, start + 1, end)

\* buffer.subarray(start, end + 1), offsets counted from 0
subarray(buffer, start, end) == SubSeq(buffer, start + 1, end + 1)

\* the headers set before the Range header is looked at
BaseReply(file) ==
    [status |-> 200, body |-> <<>>, text |-> "",
     acceptRanges |-> "bytes", cacheControl |-> "no-store",
     contentType |-> file.mime, contentDisposition |-> safeName[file.filename],
     contentLength |-> <<>>, contentRange |-> <<>>]

\* res.status(404).send("Not found or expired")
NotFoundReply ==
    [status |-> 404, body |-> <<>>, text |-> "Not found or expired",
     acceptRanges |-> "", cacheControl |-> "",
     contentType |-> "", contentDisposition |-> <<>>,
     contentLength |-> <<>>, contentRange |-> <<>>]

\* the branch without a Range header (an empty header value is falsy too)
ServeFull(id, file) ==
    LET total == Len(file.buffer)
    IN  [reply |-> [BaseReply(file) EXCEPT !.contentLength = <<total>>,
                                           !.body = file.buffer],
         stats |-> MapSet(inMemoryStats, id,
                          RecordDelivery(StatOrFresh(id, total), total))]

\* the branch of a Range header the pattern does not match
ServeUnmatched(id, file) ==
    [reply |-> [BaseReply(file) EXCEPT !.contentLength = <<Len(file.buffer)>>,
                                       !.body = file.buffer],
     stats |-> inMemoryStats]

\* the branch of a matched Range header with an omitted end defaulting to total
ServeRange_EndDefaultsToTotal(id, file, match) ==
    LET total == Len(file.buffer)
        start == Number(match.g1)
        end == IF match.g2 # <<>> THEN Number(match.g2) ELSE total
        chunk == subarray(file.buffer, start, end)
    IN  IF Unsatisfiable(start, end, total)
        THEN [reply |-> [BaseReply(file) EXCEPT
                            !.status = 416, !.text = "Requested Range Not Satisfiable"],
              stats |-> inMemoryStats]
        ELSE [reply |-> [BaseReply(file) EXCEPT
                            !.status = 206, !.contentRange = <<start, end, total>>,
                            !.contentLength = <<Len(chunk)>>, !.body = chunk],
              stats |-> MapSet(inMemoryStats, id,
                               RecordDelivery(StatOrFresh(id, total), Len(chunk)))]

\* the branch of a Range header the pattern matches
ServeRange(id, file, match) ==
    LET total == Len(file.buffer)
        start == Number(match.g1)
        end == IF match.g2 # <<>> THEN Number(match.g2) ELSE total - 1
        chunk == subarray(file.buffer, start, end)
    IN  IF Unsatisfiable(start, end, total)
        THEN [reply |-> [BaseReply(file) EXCEPT
                            !.status = 416, !.text = "Requested Range Not Satisfiable"],
              stats |-> inMemoryStats]
        ELSE [reply |-> [BaseReply(file) EXCEPT
                            !.status = 206, !.contentRange = <<start, end, total>>,
                            !.contentLength = <<Len(chunk)>>, !.body = chunk],
              stats |-> MapSet(inMemoryStats, id,
                               RecordDelivery(StatOrFresh(id, total), Len(chunk)))]

\* the branch of a missing or expired entry with a text of its own for an entry
\* found expired
NotFoundResult_SaysExpired(id) ==
    [reply |-> IF id \in DOMAIN inMemoryFiles
               THEN [NotFoundReply EXCEPT !.text = "Expired"] ELSE NotFoundReply,
     files |-> MapDelete(inMemoryFiles, id),
     stats |-> MapDelete(inMemoryStats, id)]

\* the branch of a missing or expired entry without inMemoryStats.delete
NotFoundResult_KeepStat(id) ==
    [reply |-> NotFoundReply,
     files |-> MapDelete(inMemoryFiles, id),
     stats |-> inMemoryStats]

\* the branch of a missing or expired entry
NotFoundResult(id) ==
    [reply |-> NotFoundReply,
     files |-> MapDelete(inMemoryFiles, id),
     stats |-> MapDelete(inMemoryStats, id)]

\* the handler of GET /f/:id: its answer and the two maps it leaves
GetFileResult(id, range) ==
    IF Missing(id) THEN NotFoundResult(id)
    ELSE LET file == inMemoryFiles[id]
             s == IF range = <<>> \/ range[1] = <<>> THEN ServeFull(id, file)
                  ELSE IF rangeMatch[range] = <<>> THEN ServeUnmatched(id, file)
                  ELSE ServeRange(id, file, rangeMatch[range][1])
         IN  [files |-> inMemoryFiles] @@ s

\* the bytes of id's entry sent so far, as the tracker counts them
SentSoFar(id) == IF id \in DOMAIN inMemoryStats THEN inMemoryStats[id].bytesSent ELSE 0

GetFile(id, range) ==
    \E r \in {GetFileResult(id, range)} :
        /\ r.reply.status # 404 => SentSoFar(id) < MaxSent
        /\ inMemoryFiles' = r.files
        /\ inMemoryStats' = r.stats
        /\ known' = known \cup {id}
        /\ missed' = IF r.reply.status = 404 THEN missed \cup {id} ELSE missed
        /\ removedBy' = IF id \in DOMAIN inMemoryFiles /\ id \notin DOMAIN r.files
                        THEN MapSet(removedBy, id, "read") ELSE removedBy
        /\ UNCHANGED <<now, timeouts, nextSweep, uploaded, arg, ret>>

\* ------------------------------------------------------------ GET /progress/:id
\* Math.ceil(a / b) for a >= 0, b > 0
Ceil(a, b) == (a + b - 1) \div b

\* A JavaScript number is an IEEE 754 double.  A positive double is written
\* [m |-> <<hi, lo>>, e |-> e]: the value (hi * 2^27 + lo) * 2^e, with the
\* 53-bit significand hi * 2^27 + lo in 2^52 .. 2^53 - 1.
W == 134217728

\* comparison, difference and doubling of two-limb naturals <<hi, lo>>
BigGeq(a, b) == a[1] > b[1] \/ (a[1] = b[1] /\ a[2] >= b[2])

BigSub(a, b) ==
    IF a[2] >= b[2] THEN <<a[1] - b[1], a[2] - b[2]>>
    ELSE <<a[1] - b[1] - 1, a[2] + W - b[2]>>

\* 2 * a + bit
BigDouble(a, bit) == <<2 * a[1] + (2 * a[2] + bit) \div W, (2 * a[2] + bit) % W>>

\* the double of an integer 0 < n < 2^27 (exact): with 2^k <= n < 2^(k + 1),
\* the significand is n * 2^(52 - k) and the exponent k - 52
ToDouble(n) ==
    CHOOSE x \in {[m |-> IF k <= 25 THEN <<n * 2^(25 - k), 0>>
                         ELSE <<n \div 2, (n % 2) * (W \div 2)>>,
                   e |-> k - 52] :
                     k \in {j \in 0..26 : 2^j <= n /\ n < 2 * 2^j}} : TRUE

\* one step of binary long division by D: the next quotient bit joins st.q and
\* the remainder st.r is doubled for the step after
DivStep(st, D) ==
    IF BigGeq(st.r, D)
    THEN [r |-> BigDouble(BigSub(st.r, D), 0), q |-> BigDouble(st.q, 1)]
    ELSE [r |-> BigDouble(st.r, 0), q |-> BigDouble(st.q, 0)]

RECURSIVE LongDiv(_, _, _)
\* n steps of binary long division by D, from st.r < 2 * D
LongDiv(st, D, n) ==
    IF n = 0 THEN st
    ELSE CHOOSE end \in {LongDiv(next, D, n - 1) : next \in {DivStep(s, D) : s \in {st}}} :
             TRUE

\* x / y on doubles: the quotient rounded to nearest, ties to even
DoubleDiv(x, y) ==
    LET n == IF BigGeq(x.m, y.m) THEN 54 ELSE 55
        e == x.e - y.e - n + 2
    IN  CHOOSE z \in
            {LET \* d.q has 54 bits: the 53 of the significand and a guard bit
                 guard == d.q[2] % 2
                 mant == <<d.q[1] \div 2, (d.q[1] % 2) * (W \div 2) + d.q[2] \div 2>>
                 up == guard = 1 /\ (d.r # <<0, 0>> \/ mant[2] % 2 = 1)
                 inc == IF ~up THEN mant
                        ELSE IF mant[2] + 1 < W THEN <<mant[1], mant[2] + 1>>
                        ELSE <<mant[1] + 1, 0>>
             IN  IF inc[1] = W \div 2 THEN [m |-> <<W \div 4, 0>>, e |-> e + 1]
                 ELSE [m |-> inc, e |-> e] :
               d \in {LongDiv([r |-> x.m, q |-> <<0, 0>>], y.m, n)}} : TRUE

\* Math.ceil(x) for a double 0 < x < 2^31
DoubleCeil(x) ==
    LET s == 0 - x.e
    IN  IF s >= 53 THEN 1
        ELSE IF s >= 27
        THEN x.m[1] \div 2^(s - 27)
             + (IF x.m[1] % 2^(s - 27) # 0 \/ x.m[2] # 0 THEN 1 ELSE 0)
        ELSE x.m[1] * 2^(27 - s) + x.m[2] \div 2^s
             + (IF x.m[2] % 2^s # 0 THEN 1 ELSE 0)

\* Math.ceil(remainingBytes / rate) with rate = bytesSent / elapsed and
\* elapsed = ms / 1000, for bytesSent > 0 and ms > 0
EtaOf(remainingBytes, bytesSent, ms) ==
    LET elapsed == DoubleDiv(ToDouble(ms), ToDouble(1000))
        rate == DoubleDiv(ToDouble(bytesSent), elapsed)
    IN  IF remainingBytes = 0 THEN 0
        ELSE DoubleCeil(DoubleDiv(ToDouble(remainingBytes), rate))

\* the double 0
Zero == [m |-> <<0, 0>>, e |-> 0]

\* the body of the handler for a stat it has found, with Date.now() and
\* stat.startedAt in milliseconds
ProgressJson(stat, nowMs) ==
    LET startedAt == IF Truthy(stat.startedAt) THEN stat.startedAt[1] ELSE nowMs
        ms == nowMs - startedAt
        \* (now - startedAt) / 1000
        elapsed == IF ms = 0 THEN Zero ELSE DoubleDiv(ToDouble(ms), ToDouble(1000))
        remainingBytes == IF stat.size - stat.bytesSent > 0
                          THEN stat.size - stat.bytesSent ELSE 0
        \* rate = elapsed > 0 ? bytesSent / elapsed : 0, and rate > 0
        rateIsPositive == ms > 0 /\ stat.bytesSent > 0
        \* rate > 0 ? Math.ceil(remainingBytes / rate) : null
        etaSec == IF rateIsPositive
                  THEN <<EtaOf(remainingBytes, stat.bytesSent, ms)>> ELSE <<>>
    IN  [status |-> 200, size |-> stat.size, bytesSent |-> stat.bytesSent,
         etaSec |-> etaSec, elapsed |-> elapsed]

\* an instant of the clock, which counts minutes, in milliseconds
Millis(t) == t * 60000

\* the handler of GET /progress/:id: its answer (it writes nothing)
ProgressResult(id) ==
    IF id \notin DOMAIN inMemoryStats
    THEN [status |-> 404, error |-> "not_found"]
    ELSE LET stat == inMemoryStats[id]
         IN  ProgressJson([stat EXCEPT !.startedAt = IF @ = <<>> THEN <<>>
                                                     ELSE <<Millis(@[1])>>],
                          Millis(now))

Progress(id) ==
    /\ ProgressResult(id).status \in {200, 404}
    /\ known' = known \cup {id}
    /\ UNCHANGED <<now, inMemoryFiles, inMemoryStats, timeouts, nextSweep,
                   uploaded, removedBy, missed, arg, ret>>

\* ------------------------------------------------------------ timers
\* the callback deleting from the tracker instead of from the store
TimeoutCallback_WrongMap(id) ==
    [files |-> inMemoryFiles, stats |-> MapDelete(inMemoryStats, id)]

\* the callback emptying the store instead of deleting its own id
TimeoutCallback_Clear(id) == [files |-> <<>>, stats |-> inMemoryStats]

\* the store after () => inMemoryFiles.delete(id)
TimeoutCallback(id) ==
    [files |-> MapDelete(inMemoryFiles, id), stats |-> inMemoryStats]

\* setTimeout(() => inMemoryFiles.delete(id), TTL_MINUTES * 60 * 1000)
Timeout(t) ==
    /\ t \in timeouts
    /\ now >= t.due
    /\ timeouts' = timeouts \ {t}
    /\ inMemoryFiles' = TimeoutCallback(t.id).files
    /\ inMemoryStats' = TimeoutCallback(t.id).stats
    /\ removedBy' = IF t.id \in DOMAIN inMemoryFiles
                    THEN MapSet(removedBy, t.id, "timeout") ELSE removedBy
    /\ UNCHANGED <<now, nextSweep, known, uploaded, missed, arg, ret>>

\* the entries the sweep's first loop deletes
SweptIds == {id \in DOMAIN inMemoryFiles : now > inMemoryFiles[id].expireAt}

\* the second loop with its test negated: it deletes the stats that have an entry
OrphanIds_Inverted(files) == {id \in DOMAIN inMemoryStats : id \in DOMAIN files}

\* the sweep without its second loop
OrphanIds_None(files) == {}

\* the stats the sweep's second loop deletes, given the files the first loop left
OrphanIds(files) == {id \in DOMAIN inMemoryStats : id \notin DOMAIN files}

\* the two maps after the setInterval callback
SweepResult ==
    LET files == [id \in DOMAIN inMemoryFiles \ SweptIds |-> inMemoryFiles[id]]
    IN  [files |-> files,
         stats |-> [id \in DOMAIN inMemoryStats \ OrphanIds(files) |-> inMemoryStats[id]]]

Sweep ==
    /\ now >= nextSweep
    /\ nextSweep' = now + SWEEP_MINUTES
    /\ inMemoryFiles' = SweepResult.files
    /\ inMemoryStats' = SweepResult.stats
    /\ removedBy' = [id \in DOMAIN removedBy \cup SweptIds |->
                        IF id \in SweptIds THEN "sweep" ELSE removedBy[id]]
    /\ UNCHANGED <<now, timeouts, known, uploaded, missed, arg, ret>>

\* the clock advances
Tick ==
    /\ now < MaxTime
    /\ now' = now + 1
    /\ UNCHANGED <<inMemoryFiles, inMemoryStats, timeouts, nextSweep, known,
                   uploaded, removedBy, missed, arg, ret>>

Next ==
    \/ \E file \in UploadFiles, headers \in UploadHeaders : Upload(file, headers)
    \/ \E id \in known \cup FreshIds, range \in RangeHeaders : GetFile(id, range)
    \/ \E id \in known \cup FreshIds : Progress(id)
    \/ \E t \in timeouts : Timeout(t)
    \/ Sweep
    \/ Tick

Spec == Init /\ [][Next]_vars

\* ------------------------------------------------------------ fair scheduling
\* Uploads arrive until LastUpload and the clock runs on to Horizon, far enough
\* for the timeout of the last upload and a sweep after its expiry to come due.
Horizon == LastUpload + TTL_MINUTES + SWEEP_MINUTES

FairUpload(file, headers) == now <= LastUpload /\ Upload(file, headers)

FairTick ==
    /\ now < Horizon
    /\ now' = now + 1
    /\ UNCHANGED <<inMemoryFiles, inMemoryStats, timeouts, nextSweep, known,
                   uploaded, removedBy, missed, arg, ret>>

FairNext ==
    \/ \E file \in UploadFiles, headers \in UploadHeaders : FairUpload(file, headers)
    \/ \E id \in known \cup FreshIds, range \in RangeHeaders : GetFile(id, range)
    \/ \E id \in known \cup FreshIds : Progress(id)
    \/ \E t \in timeouts : Timeout(t)
    \/ Sweep
    \/ FairTick

\* Time passes, and the event loop runs every timer callback that is due: the
\* setTimeout of each upload and the setInterval sweep.  No request is ever
\* bound to arrive.
FairSpec ==
    /\ Init
    /\ [][FairNext]_vars
    /\ WF_vars(FairTick)
    /\ WF_vars(Sweep)
    /\ \A id \in Ids : WF_vars(\E t \in timeouts : t.id = id /\ Timeout(t))

\* ------------------------------------------------------------ functions on their own
\* the server's variables, which an application of a function leaves alone
server == <<now, inMemoryFiles, inMemoryStats, timeouts, nextSweep, known,
            uploaded, removedBy, missed>>

\* the instant of the first read of the stats below
Epoch == Millis(1)

\* The stats GET /progress/:id can find for an object of up to MaxSize bytes:
\* startedAt is unset until a delivery is on record, bytesSent is 0 until then
\* and passes size only by a read of the whole object.
ProgressStats ==
    {[size |-> size, bytesSent |-> 0, startedAt |-> <<>>, completedAt |-> <<>>] :
        size \in 0..MaxSize}
    \cup {[size |-> size, bytesSent |-> sent, startedAt |-> <<Epoch>>,
           completedAt |-> IF sent >= size THEN <<Epoch>> ELSE <<>>] :
             size \in 1..MaxSize, sent \in 1..(MaxSize + 1)}
    \cup {[size |-> 0, bytesSent |-> 0, startedAt |-> <<Epoch>>,
           completedAt |-> <<Epoch>>]}

\* Date.now() when the handler runs: up to MaxTenths tenths of a second after
\* the first read
ProgressInstants == {Epoch + 100 * k : k \in 0..MaxTenths}

ProgressInit ==
    /\ Init!1 /\ Init!2 /\ Init!3 /\ Init!4 /\ Init!5
    /\ Init!6 /\ Init!7 /\ Init!8 /\ Init!9
    /\ arg \in {[stat |-> stat, nowMs |-> t] :
                   stat \in ProgressStats, t \in ProgressInstants}
    /\ ret = <<>>

\* the handler answers for the stat it has found
AskProgress ==
    /\ ret = <<>>
    /\ ret' = <<ProgressJson(arg.stat, arg.nowMs)>>
    /\ UNCHANGED <<server, arg>>

ProgressSpec == ProgressInit /\ [][AskProgress]_vars

\* n times the character c
Repeat(c, n) == [i \in 1..n |-> c]

\* the characters file names are spelled with: letters, a digit, the characters
\* the replace calls treat apart, white space, a control character, a forbidden
\* character and a character outside [\w\-_.]
NameChars == {"a", "Z", "7", ".", "_", "-", " ", "\t", "<", "!"}

\* every name of up to n characters
Names(n) == UNION {[1..k -> NameChars] : k \in 0..n}

\* names about maxLength long: a run of letters between a short head and a short
\* tail, and a run of letters as the extension of a short name
LongNames ==
    {head \o Repeat("a", n) \o tail :
        n \in (maxLength - 3)..(maxLength + 1),
        head \in {<<>>, <<".">>, <<" ">>, <<"a", ".">>},
        tail \in {<<>>, <<".">>, <<"_", "_">>, <<".", "Z">>, <<"<", ".", "7", " ">>,
                  <<".", "d", "o", "c", "x">>}}

SanitizeInit ==
    /\ Init!1 /\ Init!2 /\ Init!3 /\ Init!4 /\ Init!5
    /\ Init!6 /\ Init!7 /\ Init!8 /\ Init!9
    /\ arg \in Names(MaxName) \cup LongNames
    /\ ret = <<>>

\* sanitizeFilename is applied to the name
Sanitize ==
    /\ ret = <<>>
    /\ ret' = <<sanitizeFilename(arg)>>
    /\ UNCHANGED <<server, arg>>

SanitizeSpec == SanitizeInit /\ [][Sanitize]_vars

\* ------------------------------------------------------------ properties
\* the entry of id is in the store and its expireAt has not passed
Fresh(id) == id \in DOMAIN inMemoryFiles /\ now <= inMemoryFiles[id].expireAt

\* the end of the range bytes=<a>-<e?> on an object of `total` bytes
EndOf(e, total) == IF e = <<>> THEN total - 1 ELSE e[1]

\* C1: GET /f/:id answers 200 or 206, or sends payload bytes, only when the store
\* holds an entry for the id and now <= expireAt; a request that finds an entry
\* past its expireAt removes it and answers 404; and an entry a read has removed
\* was past its expireAt and was answered 404.
C1_ServedOnlyWhileFresh ==
    /\ \A id \in Ids, range \in RangeHeaders :
          LET r == GetFileResult(id, range)
          IN  /\ r.reply.status \in {200, 206} => Fresh(id)
              /\ r.reply.body # <<>> => r.reply.status \in {200, 206}
              /\ (id \in DOMAIN inMemoryFiles /\ now > inMemoryFiles[id].expireAt)
                    => r.reply.status = 404 /\ id \notin DOMAIN r.files
    /\ \A id \in DOMAIN removedBy :
          removedBy[id] = "read" => id \in missed /\ now > uploaded[id].entry.expireAt

\* a read has found an expired entry still in the store and removed it
C1_Witness ==
    \E id \in DOMAIN removedBy :
        removedBy[id] = "read" /\ id \in missed /\ id \notin DOMAIN inMemoryFiles

\* C2 (as claimed): from now0 + t on, now0 + t included, every GET /f/:id of an
\* object uploaded at now0 with TTL t is answered 404.
C2_MissFromExpiryOn ==
    \A id \in DOMAIN uploaded, range \in RangeHeaders :
        now >= uploaded[id].at + TTL_MINUTES
            => GetFileResult(id, range).reply.status = 404

\* C3: strictly before now0 + t the entry of an uploaded object is in the store
\* with the uploaded payload, a GET without Range returns it, and no GET of it
\* is answered 404, whatever has happened to this or other ids.
C3_LiveBeforeExpiry ==
    \A id \in DOMAIN uploaded :
        now < uploaded[id].at + TTL_MINUTES
            => /\ id \in DOMAIN inMemoryFiles
               /\ inMemoryFiles[id].buffer = uploaded[id].file.buffer
               /\ GetFileResult(id, <<>>).reply.status = 200
               /\ GetFileResult(id, <<>>).reply.body = uploaded[id].file.buffer
               /\ \A range \in RangeHeaders : GetFileResult(id, range).reply.status # 404

\* an object that has been read is before its expiry while the entry of another
\* id has already been removed
C3_Witness ==
    \E id \in DOMAIN uploaded, other \in DOMAIN removedBy :
        /\ id # other
        /\ now < uploaded[id].at + TTL_MINUTES
        /\ id \in DOMAIN inMemoryStats
        /\ inMemoryStats[id].bytesSent > 0

\* C4: the entry of an accepted upload keeps the uploaded payload, its size, the
\* mime type, display name and expireAt it was stored with for as long as it is in
\* the store; a GET without Range that finds it fresh answers 200 with that
\* payload as body, its size as declared length and the stored mime type, adds
\* size to bytesSent and changes no entry.
C4_FullReadReturnsUpload ==
    \A id \in DOMAIN inMemoryFiles :
        LET up == uploaded[id]
            r == GetFileResult(id, <<>>)
        IN  /\ up.file.size <= MAX_BYTES
            /\ inMemoryFiles[id] = up.entry
            /\ up.entry.buffer = up.file.buffer
            /\ up.entry.size = up.file.size
            /\ up.entry.expireAt = up.at + TTL_MINUTES
            /\ Fresh(id) =>
                  /\ r.reply.status = 200
                  /\ r.reply.body = up.file.buffer
                  /\ r.reply.contentLength = <<up.file.size>>
                  /\ r.reply.contentType = up.entry.mime
                  /\ r.stats[id].bytesSent = SentSoFar(id) + up.file.size
                  /\ r.files = inMemoryFiles

\* an object read in full at an earlier instant is still fresh
C4_Witness ==
    \E id \in DOMAIN inMemoryFiles :
        /\ Fresh(id)
        /\ inMemoryFiles[id].size > 0
        /\ inMemoryStats[id].bytesSent >= inMemoryFiles[id].size
        /\ inMemoryStats[id].completedAt # <<>>
        /\ inMemoryStats[id].completedAt[1] < now

\* C5: on a fresh object of N bytes, bytes=<a>-<e?> with 0 <= a <= end < N (end
\* is N - 1 when omitted) is answered 206 with body payload[a..end], declared
\* range a-end/N, declared length end - a + 1, and bytesSent grows by end - a + 1.
C5_ValidRangeIsSliced ==
    \A id \in DOMAIN inMemoryFiles, a \in 0..MaxNum, e \in Ends :
        LET buffer == inMemoryFiles[id].buffer
            N == Len(buffer)
            end == EndOf(e, N)
            r == GetFileResult(id, RangeOf(a, e))
        IN  (Fresh(id) /\ a <= end /\ end < N)
                => /\ r.reply.status = 206
                   /\ r.reply.body = [i \in 1..(end - a + 1) |-> buffer[a + i]]
                   /\ r.reply.contentRange = <<a, end, N>>
                   /\ r.reply.contentLength = <<end - a + 1>>
                   /\ r.stats[id].bytesSent = SentSoFar(id) + (end - a + 1)

\* a range read has delivered a proper part of an object
C5_Witness ==
    \E id \in DOMAIN inMemoryFiles :
        /\ Fresh(id)
        /\ inMemoryStats[id].bytesSent > 0
        /\ inMemoryStats[id].bytesSent < inMemoryFiles[id].size

\* C6: on a fresh object of N bytes, bytes=<a>-<e?> with a > end or end >= N is
\* answered 416 without payload bytes and leaves both maps as they were.
C6_BadRangeRejected ==
    \A id \in DOMAIN inMemoryFiles, a \in 0..MaxNum, e \in Ends :
        LET N == Len(inMemoryFiles[id].buffer)
            end == EndOf(e, N)
            r == GetFileResult(id, RangeOf(a, e))
        IN  (Fresh(id) /\ (a > end \/ end >= N))
                => /\ r.reply.status = 416
                   /\ r.reply.body = <<>>
                   /\ r.stats = inMemoryStats
                   /\ r.files = inMemoryFiles

\* an object with deliveries on record for which both kinds of bad range
\* (start > end, and end = N) are rejected
C6_Witness ==
    \E id \in DOMAIN inMemoryFiles :
        LET N == Len(inMemoryFiles[id].buffer)
        IN  /\ Fresh(id)
            /\ N \in 1..MaxNum
            /\ inMemoryStats[id].bytesSent > 0
            /\ GetFileResult(id, RangeOf(1, <<0>>)).reply.status = 416
            /\ GetFileResult(id, RangeOf(0, <<N>>)).reply.status = 416

\* C7 (as claimed): a Range header outside the grammar is handled exactly like
\* no Range header: same answer, same delivery recorded.
C7_UnmatchedRangeLikeNoRange ==
    \A id \in DOMAIN inMemoryFiles, range \in UnmatchedRanges :
        Fresh(id) => GetFileResult(id, range) = GetFileResult(id, <<>>)

\* C8 (as claimed): bytesSent is the sum of the bytes delivered: it is 0 at upload
\* and every read answered 200 or 206 adds the length of its body to it.
C8_EveryDeliveryCounted ==
    \A id \in DOMAIN inMemoryFiles, range \in RangeHeaders :
        LET r == GetFileResult(id, range)
        IN  r.reply.status \in {200, 206}
                => /\ id \in DOMAIN r.stats
                   /\ r.stats[id].bytesSent = SentSoFar(id) + Len(r.reply.body)

\* C9 (as claimed): whichever trigger removed the store entry of an id, its stat
\* is gone with it: GET /progress/:id answers 404.
C9_StatRemovedWithEntry ==
    \A id \in DOMAIN removedBy :
        id \notin DOMAIN inMemoryStats /\ ProgressResult(id).status = 404

\* C10: an id GET /f/:id has answered 404 for is in neither map, and GET /f/:id
\* and GET /progress/:id answer 404 for it from then on.
C10_NotFoundIsFinal ==
    \A id \in missed :
        /\ id \notin DOMAIN inMemoryFiles
        /\ id \notin DOMAIN inMemoryStats
        /\ ProgressResult(id).status = 404
        /\ \A range \in RangeHeaders : GetFileResult(id, range).reply.status = 404

\* an uploaded id was answered 404 after its timeout ran, and another upload
\* has been stored since
C10_Witness ==
    \E id \in missed \cap DOMAIN removedBy, other \in DOMAIN inMemoryFiles :
        /\ removedBy[id] = "timeout"
        /\ uploaded[other].at > uploaded[id].at

\* C11: POST /upload of a payload larger than MAX_BYTES answers 413
\* file_too_large and one without a file part answers 400 file_required; neither
\* creates an entry, a stat or a timer nor changes an existing one; a payload of
\* exactly MAX_BYTES is stored.  So every entry, stat and timer comes from an
\* accepted upload of at most MAX_BYTES.
C11_RefusedUploadStoresNothing ==
    /\ \A file \in UploadFiles, headers \in UploadHeaders, id \in Ids \ known :
          LET r == UploadResult(file, headers, id)
              unchanged == /\ r.files = inMemoryFiles
                           /\ r.stats = inMemoryStats
                           /\ r.timers = timeouts
          IN  /\ file = <<>> => r.reply = [status |-> 400, error |-> "file_required"]
                                 /\ unchanged
              /\ (file # <<>> /\ file[1].size > MAX_BYTES)
                    => r.reply = [status |-> 413, error |-> "file_too_large"] /\ unchanged
              /\ (file # <<>> /\ file[1].size = MAX_BYTES)
                    => /\ r.reply.status = 200
                       /\ id \in DOMAIN r.files /\ r.files[id].buffer = file[1].buffer
                       /\ id \in DOMAIN r.stats
                       /\ [id |-> id, due |-> now + TTL_MINUTES] \in r.timers
    /\ \A id \in DOMAIN inMemoryFiles \cup DOMAIN inMemoryStats \cup {t.id : t \in timeouts} :
          id \in DOMAIN uploaded /\ uploaded[id].file.size <= MAX_BYTES

\* a payload of exactly MAX_BYTES is in the store, with a delivery on record,
\* while the same state refuses a larger payload and a request without file
C11_Witness ==
    \E id \in DOMAIN inMemoryFiles, fresh \in Ids \ known, headers \in UploadHeaders :
        /\ inMemoryFiles[id].size = MAX_BYTES
        /\ inMemoryStats[id].bytesSent > 0
        /\ \E file \in UploadFiles :
              file # <<>> /\ file[1].size > MAX_BYTES
              /\ UploadResult(file, headers, fresh).reply.status = 413
        /\ UploadResult(<<>>, headers, fresh).reply.status = 400

\* the entry and the stat of id are the same in the maps (files, stats) as in
\* the store and the tracker
Untouched(id, files, stats) ==
    /\ id \in DOMAIN files <=> id \in DOMAIN inMemoryFiles
    /\ id \in DOMAIN files => files[id] = inMemoryFiles[id]
    /\ id \in DOMAIN stats <=> id \in DOMAIN inMemoryStats
    /\ id \in DOMAIN stats => stats[id] = inMemoryStats[id]

\* C12: an eviction that finds its id already absent is a no-op for every other
\* id.  The setTimeout callback of an absent id leaves both maps as they are; a
\* GET /f/:id of an absent id answers 404, leaves the store as it is and touches
\* the stat of no other id; no timeout or GET, whatever its id, touches the entry
\* or stat of another id; and the sweep removes or alters no entry that is still
\* fresh, nor its stat.
C12_RedundantEvictionIsNoOp ==
    /\ \A t \in timeouts :
          LET r == TimeoutCallback(t.id)
          IN  /\ t.id \notin DOMAIN inMemoryFiles
                    => r.files = inMemoryFiles /\ r.stats = inMemoryStats
              /\ \A other \in Ids \ {t.id} : Untouched(other, r.files, r.stats)
    /\ \A id \in Ids, range \in RangeHeaders :
          LET r == GetFileResult(id, range)
          IN  /\ id \notin DOMAIN inMemoryFiles
                    => r.reply.status = 404 /\ r.files = inMemoryFiles
              /\ \A other \in Ids \ {id} : Untouched(other, r.files, r.stats)
    /\ \A id \in Ids :
          Fresh(id) => Untouched(id, SweepResult.files, SweepResult.stats)

\* the timeout of an id ran after a read or the sweep had already removed its
\* entry, and the entry of another id, with a delivery on record, is still fresh
C12_Witness ==
    \E id \in DOMAIN removedBy, other \in DOMAIN inMemoryFiles :
        /\ removedBy[id] \in {"read", "sweep"}
        /\ \A t \in timeouts : t.id # id
        /\ Fresh(other)
        /\ inMemoryStats[other].bytesSent > 0

\* C13: for every Range header, GET /f/:id answers an id that was uploaded and
\* has expired (now > expireAt, whether or not its entry is still in the store)
\* with the same response as an id that was never uploaded: status 404, the same
\* text and no header or body that depends on the entry.
C13_ExpiredLooksLikeUnknown ==
    \A id \in Ids, range \in RangeHeaders :
        (id \notin DOMAIN uploaded \/ now > uploaded[id].entry.expireAt)
            => GetFileResult(id, range).reply = NotFoundReply

\* an expired entry is still in the store, stat included, while another id was
\* never uploaded; both are answered alike, also for an unsatisfiable range
C13_Witness ==
    \E id \in DOMAIN inMemoryFiles, never \in Ids \ DOMAIN uploaded :
        /\ now > inMemoryFiles[id].expireAt
        /\ inMemoryStats[id].bytesSent > 0
        /\ GetFileResult(id, RangeOf(1, <<0>>)).reply
             = GetFileResult(never, RangeOf(1, <<0>>)).reply

\* C14 (as claimed): on a fresh object of N bytes, for every N an upload may
\* have, bytes=0- yields the full body with declared range 0-(N-1)/N.
C14_OpenRangeAnySize ==
    \A id \in DOMAIN inMemoryFiles :
        LET buffer == inMemoryFiles[id].buffer
            r == GetFileResult(id, RangeOf(0, <<>>))
        IN  Fresh(id) => /\ r.reply.body = buffer
                         /\ r.reply.contentRange = <<0, Len(buffer) - 1, Len(buffer)>>

\* C14 (amended): on a fresh object of N >= 1 bytes, bytes=0- is answered 206
\* with the full body, declared range 0-(N-1)/N and declared length N; on a
\* fresh empty object (N = 0) it is answered 416 without a declared range.
C14_OpenRangeFromZero ==
    \A id \in DOMAIN inMemoryFiles :
        LET buffer == inMemoryFiles[id].buffer
            N == Len(buffer)
            r == GetFileResult(id, RangeOf(0, <<>>))
        IN  Fresh(id) =>
              IF N >= 1
              THEN /\ r.reply.status = 206
                   /\ r.reply.body = buffer
                   /\ r.reply.contentRange = <<0, N - 1, N>>
                   /\ r.reply.contentLength = <<N>>
              ELSE /\ r.reply.status = 416
                   /\ r.reply.body = <<>>
                   /\ r.reply.contentRange = <<>>

\* a fresh object of MAX_BYTES bytes that has been delivered in full, next to a
\* fresh empty object
C14_Witness ==
    \E id \in DOMAIN inMemoryFiles, empty \in DOMAIN inMemoryFiles :
        /\ Fresh(id) /\ Fresh(empty)
        /\ inMemoryFiles[empty].size = 0
        /\ inMemoryFiles[id].size = MAX_BYTES
        /\ inMemoryStats[id].bytesSent = MAX_BYTES
        /\ GetFileResult(id, RangeOf(0, <<>>)).reply.status = 206

\* what GET /progress/:id reports as bytesSent for id: <<>> when it answers
\* not_found
ReportedSent(id) ==
    IF id \in DOMAIN inMemoryStats THEN <<inMemoryStats[id].bytesSent>> ELSE <<>>

\* C15: GET /progress/:id reports the bytesSent of the stat of the id, and
\* not_found when there is none; from one step to the next the reported value
\* never decreases, and an id that is known and for which the answer is
\* not_found is answered not_found afterwards too: no stat is created again for
\* it and no read starts its counter again from 0.
C15_BytesSentNeverDecreases ==
    /\ [](\A id \in Ids : \E json \in {ProgressResult(id)} :
             IF ReportedSent(id) = <<>> THEN json.status = 404
             ELSE json.status = 200 /\ json.bytesSent = ReportedSent(id)[1])
    /\ [][\A id \in Ids :
             /\ (ReportedSent(id) # <<>> /\ ReportedSent(id)' # <<>>)
                   => ReportedSent(id)'[1] >= ReportedSent(id)[1]
             /\ (id \in known /\ ReportedSent(id) = <<>>)
                   => ReportedSent(id)' = <<>>]_vars

\* the counter of an id has grown in reads at two instants, and the stat of
\* another uploaded id is gone after a not-found answer
C15_Witness ==
    \E id \in DOMAIN inMemoryStats, other \in missed \cap DOMAIN uploaded :
        /\ inMemoryStats[id].bytesSent >= 2
        /\ inMemoryStats[id].startedAt # <<>> /\ inMemoryStats[id].completedAt # <<>>
        /\ inMemoryStats[id].startedAt[1] < inMemoryStats[id].completedAt[1]
        /\ ProgressResult(other).status = 404

\* id is in neither the store nor the tracker
Evicted(id) == id \notin DOMAIN inMemoryFiles /\ id \notin DOMAIN inMemoryStats

\* C16: when time passes and the due timer callbacks run, every uploaded id is
\* eventually in neither the store nor the tracker, for good, whether or not a
\* request for it ever arrives; and an uploaded id that is in neither stays in
\* neither.
C16_EveryUploadIsEvicted ==
    /\ \A id \in Ids : (id \in DOMAIN uploaded) ~> [](Evicted(id))
    /\ [][\A id \in DOMAIN uploaded : Evicted(id) => Evicted(id)']_vars

\* an uploaded id is in neither map and no GET /f/:id has removed it: its
\* entry went with the timeout or the sweep, its stat with the sweep
C16_Witness ==
    \E id \in DOMAIN uploaded :
        /\ Evicted(id)
        /\ id \notin missed
        /\ id \in DOMAIN removedBy /\ removedBy[id] \in {"timeout", "sweep"}

\* C17: a stat is created with startedAt unset and keeps it unset as long as no
\* delivery is on record; the step that sets it is a GET /f/:id answered 200 or
\* 206 that records a delivery, and sets it to the instant of that read; once
\* set it keeps its value for as long as the stat exists.
C17_StartedAtSetOnce ==
    /\ [](\A id \in DOMAIN inMemoryStats :
             inMemoryStats[id].startedAt = <<>>
                 => inMemoryStats[id].bytesSent = 0 /\ inMemoryStats[id].completedAt = <<>>)
    /\ [][\A id \in DOMAIN inMemoryStats' :
             IF id \notin DOMAIN inMemoryStats
             THEN inMemoryStats'[id].startedAt = <<>>
             ELSE LET before == inMemoryStats[id].startedAt
                      after == inMemoryStats'[id].startedAt
                  IN  /\ before # <<>> => after = before
                      /\ (before = <<>> /\ after # <<>>)
                            => /\ after = <<now>>
                               /\ \E range \in RangeHeaders :
                                     /\ GetFileResult(id, range).reply.status \in {200, 206}
                                     /\ GetFileResult(id, range).stats = inMemoryStats'
                                     /\ GetFileResult(id, range).stats # inMemoryStats]_vars

\* a later read has completed an object whose startedAt is still the instant of
\* its first read, while the stat of another id has startedAt unset
C17_Witness ==
    \E id \in DOMAIN inMemoryStats, other \in DOMAIN inMemoryStats :
        /\ inMemoryStats[other].startedAt = <<>>
        /\ inMemoryStats[id].startedAt # <<>> /\ inMemoryStats[id].completedAt # <<>>
        /\ inMemoryStats[id].startedAt[1] < inMemoryStats[id].completedAt[1]
        /\ inMemoryStats[id].completedAt[1] = now

\* C18 (as claimed): GET /progress/:id answers the stat's size and bytesSent,
\* with elapsed = 0 and etaSec null when no read has started, etaSec null
\* whenever bytesSent = 0 or elapsed = 0, and otherwise
\* etaSec = ceil(max(size - bytesSent, 0) * elapsed / bytesSent), which is 0
\* when bytesSent >= size; and it changes no state.
C18_EtaIsExactCeiling ==
    ret # <<>> =>
        LET stat == arg.stat
            json == ret[1]
            ms == IF stat.startedAt = <<>> THEN 0 ELSE arg.nowMs - stat.startedAt[1]
            remaining == IF stat.size > stat.bytesSent
                         THEN stat.size - stat.bytesSent ELSE 0
        IN  /\ json.status = 200
            /\ json.size = stat.size /\ json.bytesSent = stat.bytesSent
            /\ stat.startedAt = <<>> => json.elapsed = Zero /\ json.etaSec = <<>>
            /\ ms = 0 <=> json.elapsed = Zero
            /\ (stat.bytesSent = 0 \/ ms = 0) => json.etaSec = <<>>
            /\ (stat.bytesSent > 0 /\ ms > 0)
                  => json.etaSec = <<Ceil(remaining * ms, stat.bytesSent * 1000)>>
            /\ (stat.bytesSent > 0 /\ ms > 0 /\ stat.bytesSent >= stat.size)
                  => json.etaSec = <<0>>
            /\ server = <<1, <<>>, <<>>, {}, 1 + SWEEP_MINUTES, {}, <<>>, <<>>, {}>>

\* C19: every id in the store is in the tracker too, the size of its stat is
\* the size of its entry, which is the length of the payload, and the read path
\* finds that stat: the fallback { size: total, bytesSent: 0 } is not taken.
C19_EveryEntryHasItsStat ==
    \A id \in DOMAIN inMemoryFiles :
        /\ id \in DOMAIN inMemoryStats
        /\ inMemoryStats[id].size = inMemoryFiles[id].size
        /\ inMemoryFiles[id].size = Len(inMemoryFiles[id].buffer)
        /\ StatOrFresh(id, Len(inMemoryFiles[id].buffer)) = inMemoryStats[id]

\* an entry with a delivery on record has been through a sweep and is still
\* fresh, after another id has lost its entry
C19_Witness ==
    \E id \in DOMAIN inMemoryFiles, other \in DOMAIN removedBy :
        /\ Fresh(id)
        /\ inMemoryStats[id].bytesSent > 0
        /\ nextSweep > 1 + SWEEP_MINUTES
        /\ uploaded[id].at + SWEEP_MINUTES <= nextSweep

\* C20 (as claimed): the name sanitizeFilename returns is not empty and is
\* "archivo" when the input is empty or nothing is left of it; it holds no
\* white space, control character or any of <>:"/\|?*; it neither begins nor ends
\* with a dot or an underscore; and it is at most maxLength long, with the
\* extension kept when the base name was truncated.
C20_DisplayNameIsClean ==
    ret # <<>> =>
        LET displayName == ret[1]
            sanitized == replaced(arg)
        IN  /\ displayName # <<>>
            /\ sanitized = <<>> => displayName = archivo
            /\ \A i \in 1..Len(displayName) :
                  ~IsSpaceChar(displayName[i]) /\ ~IsForbiddenChar(displayName[i])
            /\ displayName[1] \notin {".", "_"}
            /\ displayName[Len(displayName)] \notin {".", "_"}
            /\ Len(displayName) <= maxLength
            /\ Len(sanitized) > maxLength => extname(displayName) = extname(sanitized)

====
